---- MODULE Spec2Model ----
(***************************************************************************)
(* A model of fio's simulation cell, src/fio/box.py: the validated         *)
(* parameter store BoxInputDict, the Box that owns it, the derived         *)
(* geometry `output`, the representation converters, the type guesser and  *)
(* the spatial queries bbcheck / extend / wrap / ghost.                    *)
(*                                                                         *)
(* Numbers.  box.py computes in floats.  Here every length and coordinate  *)
(* is an integer count of half a 1e-9, so that `output`, which rounds to   *)
(* 1e-9, rounds to an even count, and every direction cosine is carried    *)
(* as its numerator over 5.  The boxes and points of the geometric         *)
(* specifications are drawn from the family on which that arithmetic is    *)
(* exact: edges short enough for their squares to be held (boxes about     *)
(* 1e-6 wide), at most one of alpha, beta, gamma different from 90, and a  *)
(* tilted angle arccos(3/5) or arccos(-3/5) (written 53 and 127), so that  *)
(* every unit vector is a 3-4-5 direction.  bbcheck, wrap and ghost are    *)
(* homogeneous in the length scale, so a box of edge 1000 with a point at  *)
(* 1100 behaves as the box of edge 10 with a point at 11.                  *)
(***************************************************************************)
EXTENDS Integers, Sequences, FiniteSets, TLC

VARIABLES input, op, err, before, arg, ret, gen, nops

vars == <<input, op, err, before, arg, ret, gen, nops>>

-----------------------------------------------------------------------------
(* Small arithmetic *)

Abs(x) == IF x < 0 THEN -x ELSE x

Max2(x, y) == IF x >= y THEN x ELSE y

Min2(x, y) == IF x <= y THEN x ELSE y

RECURSIVE SqrtIter(_, _)
SqrtIter(n, r) ==
    IF r * r <= n /\ (r + 1) * (r + 1) > n THEN r
    ELSE SqrtIter(n, (r + n \div r) \div 2)

\* x ** 0.5 on the values the model computes with (perfect squares)
Sqrt(n) == IF n <= 0 THEN 0 ELSE SqrtIter(n, Min2(n, 46339))

Dot(a, b) == a[1] * b[1] + a[2] * b[2] + a[3] * b[3]

VAdd(a, b) == <<a[1] + b[1], a[2] + b[2], a[3] + b[3]>>

VSub(a, b) == <<a[1] - b[1], a[2] - b[2], a[3] - b[3]>>

VScale(k, a) == <<k * a[1], k * a[2], k * a[3]>>

VNeg(a) == <<-a[1], -a[2], -a[3]>>

NpCross(a, b) ==
    <<a[2] * b[3] - a[3] * b[2],
      a[3] * b[1] - a[1] * b[3],
      a[1] * b[2] - a[2] * b[1]>>

\* np.linalg.norm of one row
Norm(a) == Sqrt(Dot(a, a))

\* l2[l2 == 0] = 1
NonZero(l2) == IF l2 = 0 THEN 1 ELSE l2

\* a / l2, as 5 * (a / l2)
Over(a, l2) == <<(5 * a[1]) \div l2, (5 * a[2]) \div l2, (5 * a[3]) \div l2>>

\* normalize(a) of one row, returned as 5 * (unit vector); a zero row has
\* its norm replaced by 1 and stays zero
normalize(a) == Over(a, NonZero(Norm(a)))

\* cross(v, u) = normalize(np.cross(v, u)), as 5 * (unit vector)
cross(v, u) == normalize(NpCross(v, u))

-----------------------------------------------------------------------------
(* Angles: degrees, with 53 and 127 standing for arccos(3/5), arccos(-3/5) *)
(* and 37 and 143 for arccos(4/5), arccos(-4/5).                           *)

abg == {"alpha", "beta", "gamma"}

\* 5 * np.cos(angle * deg2rad)
Cos5(angle) ==
    CASE angle = 90 -> 0
      [] angle = 53 -> 3
      [] angle = 127 -> -3
      [] angle = 37 -> 4
      [] angle = 143 -> -4
      [] angle = 0 -> 5
      [] angle = 180 -> -5

\* np.arccos(c5 / 5) * rad2deg
ArcCosDeg(c5) ==
    CASE c5 = 0 -> 90
      [] c5 = 3 -> 53
      [] c5 = -3 -> 127
      [] c5 = 4 -> 37
      [] c5 = -4 -> 143
      [] c5 = 5 -> 0
      [] c5 = -5 -> 180

-----------------------------------------------------------------------------
(* BoxInputDict: a dict whose key set is frozen by its own guards *)

Fields ==
    {"x0", "y0", "z0", "lx", "ly", "lz", "alpha", "beta", "gamma",
     "allow_tilt", "bx", "by", "bz"}

\* counts per 1e-9, the step `output` rounds to (p = 9)
Nano == 2

\* the length 1.0
One == 1000000000 * Nano

\* the dict Box.__init__ builds before applying inputdict
Defaults ==
    [x0 |-> 0, y0 |-> 0, z0 |-> 0, lx |-> One, ly |-> One, lz |-> One,
     alpha |-> 90, beta |-> 90, gamma |-> 90, allow_tilt |-> FALSE,
     bx |-> "pp", by |-> "pp", bz |-> "pp"]

\* dict.__setitem__ / object.__setattr__ on the dict that is its own __dict__
DictSet(d, key, value) ==
    [k \in DOMAIN d \cup {key} |-> IF k = key THEN value ELSE d[k]]

AnyTilt(d) == \E k \in abg : d[k] # 90

\* BoxInputDict._check_allow_tilt, run after the write of key
check_allow_tilt(d, key, value) ==
    IF key \in abg /\ value # 90
    THEN DictSet(d, "allow_tilt", TRUE)
    ELSE IF key = "allow_tilt" /\ ~d["allow_tilt"]
         THEN IF AnyTilt(d) THEN DictSet(d, "allow_tilt", TRUE) ELSE d
         ELSE d

\* BoxInputDict.__setitem__: [err, d]
setitem(d, key, value) ==
    IF key \notin DOMAIN d
    THEN [err |-> "KeyError", d |-> d]
    ELSE [err |-> "", d |-> check_allow_tilt(DictSet(d, key, value), key, value)]

\* BoxInputDict.__setattr__: [err, d].  The dict is its own __dict__, so a
\* write of an attribute is a write of the item; the name __dict__ passes the
\* guard and rebinds the attribute store, which leaves the items as they are
setattr(d, key, value) ==
    IF key \notin (DOMAIN d \cup {"__dict__"})
    THEN [err |-> "KeyError", d |-> d]
    ELSE IF key = "__dict__"
         THEN [err |-> "", d |-> d]
         ELSE [err |-> "",
               d |-> check_allow_tilt(DictSet(d, key, value), key, value)]

\* update as it would be without the pop: the keys that were not there stay
\* (C2 tells the two apart)
update_keeping(d, upd) ==
    [k \in DOMAIN d \cup DOMAIN upd |-> IF k \in DOMAIN upd THEN upd[k] ELSE d[k]]

\* BoxInputDict.update: dict.update, then every key that was not there is popped
update(d, upd) ==
    LET frozen == DOMAIN d
        merged == [k \in DOMAIN d \cup DOMAIN upd |->
                     IF k \in DOMAIN upd THEN upd[k] ELSE d[k]]
        invalidkeys == DOMAIN merged \ frozen
    IN  [k \in DOMAIN merged \ invalidkeys |-> merged[k]]

\* Box.__init__(inputdict)
BoxInit(inputdict) == update(Defaults, inputdict)

-----------------------------------------------------------------------------
(* DerivedGeometry: the `output` property, recomputed at every access *)

\* the term under the root of c, as <<numerator, denominator>> over cosines
\* carried as fifths: 1 - cb^2 - (ca - cg cb)^2 / (1 - cg^2)
CTerm(ca, cb, cg) ==
    <<25 * (25 - cg * cg) - cb * cb * (25 - cg * cg)
        - (5 * ca - cg * cb) * (5 * ca - cg * cb),
      25 * (25 - cg * cg)>>

\* np.round(x, 9): to the nearest multiple of 1e-9, a tie to the even one
Round9(x) ==
    LET q == x \div Nano
        r == x % Nano
    IN  IF 2 * r < Nano THEN q * Nano
        ELSE IF 2 * r > Nano THEN (q + 1) * Nano
        ELSE IF q % 2 = 0 THEN q * Nano ELSE (q + 1) * Nano

\* b = ly / (1 - cg^2)^0.5
LatticeB(d) == (5 * d["ly"]) \div Sqrt(25 - Cos5(d["gamma"]) * Cos5(d["gamma"]))

\* c = lz / (1 - cb^2 - (ca - cg cb)^2 / (1 - cg^2))^0.5
LatticeC(d) ==
    (d["lz"] * Sqrt(CTerm(Cos5(d["alpha"]), Cos5(d["beta"]), Cos5(d["gamma"]))[2]))
      \div Sqrt(CTerm(Cos5(d["alpha"]), Cos5(d["beta"]), Cos5(d["gamma"]))[1])

\* xy, xz, yz
Tilts(d, b, c) ==
    LET xy == (b * Cos5(d["gamma"])) \div 5
        xz == (c * Cos5(d["beta"])) \div 5
    IN  [xy |-> xy, xz |-> xz,
         yz |-> ((b * c * Cos5(d["alpha"])) \div 5 - xy * xz) \div d["ly"]]

\* v, the rows v_a, v_b, v_c
BasisRows(d, t) ==
    <<<<d["lx"], 0, 0>>, <<t.xy, d["ly"], 0>>, <<t.xz, t.yz, d["lz"]>>>>

\* u = normalize(v), each row as 5 * (unit vector)
UnitRows(v) == <<normalize(v[1]), normalize(v[2]), normalize(v[3])>>

\* bn, the face normals cross(u[1], u[2]), cross(u[2], u[0]), cross(u[0], u[1])
FaceNormals(u) == <<cross(u[2], u[3]), cross(u[3], u[1]), cross(u[1], u[2])>>

\* np.round(v, 9)
RoundRows(v) ==
    <<<<Round9(v[1][1]), Round9(v[1][2]), Round9(v[1][3])>>,
      <<Round9(v[2][1]), Round9(v[2][2]), Round9(v[2][3])>>,
      <<Round9(v[3][1]), Round9(v[3][2]), Round9(v[3][3])>>>>

\* the mapping `output` returns, every number in it rounded; an angle code
\* names its angle to within the rounding, and 5 * u, 5 * bn are whole
OutputRec(d, b, c, t, v, u) ==
    [xlo |-> Round9(d["x0"]), xhi |-> Round9(d["x0"] + d["lx"]),
     ylo |-> Round9(d["y0"]), yhi |-> Round9(d["y0"] + d["ly"]),
     zlo |-> Round9(d["z0"]), zhi |-> Round9(d["z0"] + d["lz"]),
     allow_tilt |-> d["allow_tilt"] \/ AnyTilt(d),
     a |-> Round9(d["lx"]), b |-> Round9(b), c |-> Round9(c),
     xy |-> Round9(t.xy), xz |-> Round9(t.xz), yz |-> Round9(t.yz),
     alpha |-> d["alpha"], beta |-> d["beta"], gamma |-> d["gamma"],
     v |-> RoundRows(v), u |-> u, bn |-> FaceNormals(u)]

OutputOfRows(d, b, c, t, v) == OutputRec(d, b, c, t, v, UnitRows(v))

OutputOfTilts(d, b, c, t) == OutputOfRows(d, b, c, t, BasisRows(d, t))

OutputOfLattice(d, b, c) == OutputOfTilts(d, b, c, Tilts(d, b, c))

\* Box.output
output(d) == OutputOfLattice(d, LatticeB(d), LatticeC(d))

\* the longest edge and farthest origin `output` is computed on
MaxEdge == 20000

\* The boxes `output` is computed exactly on: positive lengths (u is then
\* invertible) within MaxEdge, at most one angle tilted, and edge lengths
\* whose lattice lengths and tilt factors are whole.
InFamily(d) ==
    /\ d["lx"] > 0 /\ d["ly"] > 0 /\ d["lz"] > 0
    /\ \A k \in {"x0", "y0", "z0", "lx", "ly", "lz"} :
          d[k] <= MaxEdge /\ -d[k] <= MaxEdge
    /\ \A k \in abg : d[k] \in {53, 90, 127}
    /\ Cardinality({k \in abg : d[k] # 90}) <= 1
    /\ d["gamma"] # 90 => d["ly"] % 4 = 0
    /\ d["alpha"] # 90 => d["lz"] % 4 = 0
    /\ d["beta"] # 90 => d["lz"] % 4 = 0

-----------------------------------------------------------------------------
(* RepresentationConverter: each returns [err, d], d the partial update *)

\* the dict Box._input_basis returns for rows v with u = normalize(v)
BasisDict(v, u) ==
    [lx |-> v[1][1], ly |-> v[2][2], lz |-> v[3][3],
     alpha |-> ArcCosDeg(Dot(u[2], u[3]) \div 5),
     beta  |-> ArcCosDeg(Dot(u[1], u[3]) \div 5),
     gamma |-> ArcCosDeg(Dot(u[1], u[2]) \div 5)]

\* Box._input_basis on a 3x3 matrix given by its rows
input_basis_rows(v) == BasisDict(v, UnitRows(v))

\* np.array(v).reshape(3, 3)
Reshape33(v) == <<<<v[1], v[2], v[3]>>, <<v[4], v[5], v[6]>>, <<v[7], v[8], v[9]>>>>

input_basis(v) ==
    IF Len(v) # 9 THEN [err |-> "ValueError", d |-> <<>>]
    ELSE [err |-> "", d |-> input_basis_rows(Reshape33(v))]

\* v = xlo, xhi, ylo, yhi, zlo, zhi, xy, xz, yz
input_lmpdata(v) ==
    IF Len(v) # 9 THEN [err |-> "ValueError", d |-> <<>>]
    ELSE [err |-> "",
          d |-> [x0 |-> v[1], y0 |-> v[3], z0 |-> v[5]] @@
                input_basis_rows(<<<<v[2] - v[1], 0, 0>>,
                                   <<v[7], v[4] - v[3], 0>>,
                                   <<v[8], v[9], v[6] - v[5]>>>>)]

\* v = xlo, xhi, xy, ylo, yhi, xz, zlo, zhi, yz; np.take reads nine places
input_lmpdump(v) ==
    IF Len(v) < 9 THEN [err |-> "IndexError", d |-> <<>>]
    ELSE input_lmpdata(<<v[1], v[2], v[4], v[5], v[7], v[8], v[3], v[6], v[9]>>)

\* a, cos_gamma, b, cos_beta, cos_alpha, c  (cosines as fifths)
input_dcd_args(a, cg, b, cb, ca, c) ==
    LET ct == CTerm(ca, cb, cg)
    IN  [lx |-> a,
         ly |-> (b * Sqrt(25 - cg * cg)) \div 5,
         lz |-> (c * Sqrt(ct[1])) \div Sqrt(ct[2]),
         alpha |-> ArcCosDeg(ca), beta |-> ArcCosDeg(cb), gamma |-> ArcCosDeg(cg)]

input_dcd(v) ==
    IF Len(v) # 6 THEN [err |-> "ValueError", d |-> <<>>]
    ELSE [err |-> "", d |-> input_dcd_args(v[1], v[2], v[3], v[4], v[5], v[6])]

\* a, b, c, alpha, beta, gamma
input_lattice(v) ==
    IF Len(v) # 6 THEN [err |-> "ValueError", d |-> <<>>]
    ELSE [err |-> "",
          d |-> input_dcd_args(v[1], Cos5(v[6]), v[2], Cos5(v[5]), Cos5(v[4]), v[3])]

-----------------------------------------------------------------------------
(* Ingestion: _format_input, _guess_type, set_input *)

\* ERROR of the fio package (fio/__init__.py): reports msg and raises, ending
\* the operation that called it
ERROR(msg) == [raised |-> TRUE, kind |-> msg]

\* An argv is None, or the sequence of tokens / numbers handed in
NoneArgv == [none |-> TRUE, data |-> <<>>]

ArrayArgv(a) == [none |-> FALSE, data |-> a]

\* Box._format_input: [err, none, data].  len(None) is a TypeError; one token
\* is a file reference
format_input(argv) ==
    IF argv.none
    THEN [err |-> "TypeError", none |-> TRUE, data |-> <<>>]
    ELSE IF Len(argv.data) = 1
         THEN LET e == ERROR("UnsupportedFormatError")
              IN  [err |-> IF e.raised THEN e.kind ELSE "",
                   none |-> TRUE, data |-> <<>>]
         ELSE [err |-> "", none |-> FALSE, data |-> argv.data]

\* the comparisons with the LmpDump test made before the LmpData test
\* (C3 tells the two apart)
GuessArrayDumpFirst(argv) ==
    IF Len(argv) = 9
    THEN IF argv[1] < argv[2] /\ argv[4] < argv[5] /\ argv[7] < argv[8]
         THEN "lmpdump"
         ELSE IF argv[1] < argv[2] /\ argv[3] < argv[4] /\ argv[5] < argv[6]
              THEN "lmpdata"
              ELSE "basis"
    ELSE IF Len(argv) = 6
         THEN IF argv[2] <= 1 /\ argv[4] <= 1 /\ argv[5] <= 1
              THEN "dcd"
              ELSE "lattice"
         ELSE "error"

\* the comparisons of Box._guess_type on an array, in the order written
GuessArray(argv) ==
    IF Len(argv) = 9
    THEN IF argv[1] < argv[2] /\ argv[3] < argv[4] /\ argv[5] < argv[6]
         THEN "lmpdata"
         ELSE IF argv[1] < argv[2] /\ argv[4] < argv[5] /\ argv[7] < argv[8]
              THEN "lmpdump"
              ELSE "basis"
    ELSE IF Len(argv) = 6
         THEN IF argv[2] <= 1 /\ argv[4] <= 1 /\ argv[5] <= 1
              THEN "dcd"
              ELSE "lattice"
         ELSE "error"

\* Box._guess_type: [err, typ]
guess_type(data) ==
    IF data.none
    THEN [err |-> ERROR("MissingParametersError").kind, typ |-> ""]
    ELSE IF Len(data.data) \in {6, 9}
         THEN [err |-> "", typ |-> GuessArray(data.data)]
         ELSE [err |-> ERROR("InvalidParametersError").kind, typ |-> ""]

\* self.alias.get(typ, typ)
alias(typ) ==
    CASE typ = "vmd" -> "lattice"
      [] typ = "poscar" -> "basis"
      [] typ = "vasp" -> "basis"
      [] OTHER -> typ

InputTypes == {"basis", "lmpdata", "lmpdump", "dcd", "lattice"}

\* func(data) for func = getattr(self, f'_input_{typ}')
convert(typ, v) ==
    CASE typ = "basis" -> input_basis(v)
      [] typ = "lmpdata" -> input_lmpdata(v)
      [] typ = "lmpdump" -> input_lmpdump(v)
      [] typ = "dcd" -> input_dcd(v)
      [] typ = "lattice" -> input_lattice(v)

\* Box.set_input(argv, typ), typ = "" for None: [err, d, typ]
set_input(d, argv, typ) ==
    LET data == format_input(argv)
        t0   == alias(typ)
        g    == IF t0 = "" THEN guess_type(data) ELSE [err |-> "", typ |-> t0]
        c    == convert(g.typ, data.data)
        d1   == update(d, c.d)
        d2   == IF AnyTilt(d1) THEN setitem(d1, "allow_tilt", TRUE).d ELSE d1
    IN  IF data.err # "" THEN [err |-> data.err, d |-> d, typ |-> ""]
        ELSE IF g.err # "" THEN [err |-> g.err, d |-> d, typ |-> ""]
        ELSE IF g.typ \notin InputTypes
             THEN [err |-> "AttributeError", d |-> d, typ |-> ""]
        ELSE IF data.none THEN [err |-> "TypeError", d |-> d, typ |-> ""]
        ELSE IF c.err # "" THEN [err |-> c.err, d |-> d, typ |-> ""]
        ELSE [err |-> "", d |-> d2, typ |-> g.typ]

-----------------------------------------------------------------------------
(* SpatialQueries: bbcheck, extend, wrap.  A point set is a sequence of     *)
(* points, a pbc argument a sequence of booleans (a scalar is one long).   *)

\* the margin 1e-7 of extend
Eps == 100 * Nano

Idx(seq) == 1..Len(seq)

RECURSIVE SetMin(_)
SetMin(S) ==
    LET x == CHOOSE y \in S : TRUE
    IN  IF S = {x} THEN x ELSE Min2(x, SetMin(S \ {x}))

RECURSIVE SetMax(_)
SetMax(S) ==
    LET x == CHOOSE y \in S : TRUE
    IN  IF S = {x} THEN x ELSE Max2(x, SetMax(S \ {x}))

\* (flatten(pbc) * 3)[:3]
Broadcast3(pbc) == [i \in 1..3 |-> pbc[((i - 1) % Len(pbc)) + 1]]

\* the six signed face distances of one point:
\* (face_xlo face_ylo face_zlo face_xhi face_yhi face_zhi)
FaceDist(box, p) ==
    LET lo == VSub(<<box.xlo, box.ylo, box.zlo>>, p)
        hi == VAdd(lo, VAdd(box.v[1], VAdd(box.v[2], box.v[3])))
        bn == box.bn
    IN  <<Dot(VNeg(bn[1]), lo) \div 5, Dot(VNeg(bn[2]), lo) \div 5,
          Dot(VNeg(bn[3]), lo) \div 5,
          Dot(bn[1], hi) \div 5, Dot(bn[2], hi) \div 5, Dot(bn[3], hi) \div 5>>

\* the test with the faces left out: np.min(dist, axis=1) > 0
\* (C4 tells the two apart)
InsideOpen(dist) == SetMin({dist[k] : k \in 1..6}) > 0

\* np.min(dist, axis=1) >= 0
Inside(dist) == SetMin({dist[k] : k \in 1..6}) >= 0

\* dist, one row of six per point
FaceDists(box, pts) == [n \in Idx(pts) |-> FaceDist(box, pts[n])]

\* the mapping bbcheck returns for the distances dist
BBMasks(dist) ==
    [inbound |-> [n \in Idx(dist) |-> Inside(dist[n])],
     outbound |-> [n \in Idx(dist) |-> ~Inside(dist[n])],
     dist |-> dist]

\* Box.bbcheck(pts): [inbound, outbound, dist]
bbcheck(d, pts) == BBMasks(FaceDists(output(d), pts))

\* np.sum(bbcheck['inbound'])
CountTrue(mask) == Cardinality({n \in Idx(mask) : mask[n]})

\* the low end extend writes: min over (outbound points - 1e-7) and lo0,
\* times (~pbc).astype(int)
ExtendLo(outpts, lo0, pbc3) ==
    [i \in 1..3 |->
        SetMin({p[i] - Eps : p \in outpts} \cup {lo0[i]})
          * (IF pbc3[i] THEN 0 ELSE 1)]

\* the rows u[i] * (max((max d_abc + 1e-7) * ~pbc, |v[i]|) - shift[i])
ExtendRows(box, outpts, lo0, lo1, pbc3) ==
    [i \in 1..3 |->
        LET shift == Dot(box.u[i], VSub(lo1, lo0)) \div 5
            dmax  == SetMax({Dot(box.u[i], VSub(p, lo0)) \div 5 : p \in outpts})
            len   == Max2((dmax + Eps) * (IF pbc3[i] THEN 0 ELSE 1),
                          Norm(box.v[i]))
                     - shift
        IN  <<(box.u[i][1] * len) \div 5, (box.u[i][2] * len) \div 5,
              (box.u[i][3] * len) \div 5>>]

\* the writes of extend: x0, y0, z0 one by one, then update(_input_basis(v))
ExtendWrite(d, lo1, v) ==
    update(setitem(setitem(setitem(d, "x0", lo1[1]).d, "y0", lo1[2]).d,
                   "z0", lo1[3]).d,
           input_basis_rows(v))

ExtendTo(d, box, outpts, lo0, lo1, pbc3) ==
    ExtendWrite(d, lo1, ExtendRows(box, outpts, lo0, lo1, pbc3))

ExtendOut(d, box, outpts, lo0, pbc3) ==
    ExtendTo(d, box, outpts, lo0, ExtendLo(outpts, lo0, pbc3), pbc3)

\* extend with box = self.output and bb = self.bbcheck(pts) in hand
ExtendBox(d, pts, pbc3, box, bb) ==
    IF CountTrue(bb.inbound) = Len(pts) THEN d
    ELSE ExtendOut(d, box, {pts[n] : n \in {m \in Idx(pts) : bb.outbound[m]}},
                   <<box.xlo, box.ylo, box.zlo>>, pbc3)

\* Box.extend(pts, pbc=pbc): the CanonicalBox after the call
extend(d, pts, pbc) ==
    ExtendBox(d, pts, Broadcast3(pbc), output(d), bbcheck(d, pts))

\* the six lattice vectors wrap shifts by: np.r_[box['v'], -box['v']]
WrapVecs(box) ==
    <<box.v[1], box.v[2], box.v[3],
      VNeg(box.v[1]), VNeg(box.v[2]), VNeg(box.v[3])>>

\* the repeats with the quotient cut towards zero instead of floored
\* (C7 tells the two apart)
WrapRepTrunc(box, dist, pbc3) ==
    [k \in 1..6 |->
        LET i == ((k - 1) % 3) + 1
        IN  IF dist[k] >= 0 THEN 0
            ELSE ((-dist[k]) \div Norm(box.v[i])) * (IF pbc3[i] THEN 1 ELSE 0)]

\* the repeats of one point: |floor_divide(dist, |v|) * pbc|, 0 where dist >= 0
WrapRep(box, dist, pbc3) ==
    [k \in 1..6 |->
        LET i == ((k - 1) % 3) + 1
        IN  IF dist[k] >= 0 THEN 0
            ELSE Abs((dist[k] \div Norm(box.v[i])) * (IF pbc3[i] THEN 1 ELSE 0))]

RECURSIVE WrapShift(_, _, _)
WrapShift(rep, vecs, k) ==
    IF k = 0 THEN <<0, 0, 0>>
    ELSE VAdd(VScale(rep[k], vecs[k]), WrapShift(rep, vecs, k - 1))

\* wrap with box = self.output and bb = self.bbcheck(pts) in hand
WrapBox(pts, pbc3, box, bb) ==
    IF CountTrue(bb.inbound) = Len(pts) THEN pts
    ELSE [n \in Idx(pts) |->
            VAdd(pts[n],
                 WrapShift(WrapRep(box, bb.dist[n], pbc3), WrapVecs(box), 6))]

\* Box.wrap(pts, pbc=pbc): the returned point set
wrap(d, pts, pbc) == WrapBox(pts, Broadcast3(pbc), output(d), bbcheck(d, pts))

-----------------------------------------------------------------------------
(* Box.ghost: a generator.  Nothing runs at the call; the first next()     *)
(* reads `output` and computes L, the diagonal shift and the signs.        *)

\* L = [a * pbc[0], b * pbc[1], c * pbc[2]]
GhostL(box, pbc3) ==
    <<box.a * (IF pbc3[1] THEN 1 ELSE 0),
      box.b * (IF pbc3[2] THEN 1 ELSE 0),
      box.c * (IF pbc3[3] THEN 1 ELSE 0)>>

\* L[i] * box['u'][i]
AxisShift(box, L, i) ==
    <<(L[i] * box.u[i][1]) \div 5, (L[i] * box.u[i][2]) \div 5,
      (L[i] * box.u[i][3]) \div 5>>

\* the shift of the k-th yield: the diagonal, then i = 0, 1, 2, then the
\* pairs zip((0, 1, 2), (1, 2, 0))
GhostShift(box, L, k) ==
    IF k = 1
    THEN VAdd(AxisShift(box, L, 1), VAdd(AxisShift(box, L, 2), AxisShift(box, L, 3)))
    ELSE IF k \in 2..4
         THEN AxisShift(box, L, k - 1)
         ELSE LET i == k - 4
                  j == (i % 3) + 1
              IN  VAdd(AxisShift(box, L, i), AxisShift(box, L, j))

\* the sign with a tie given to the second column, +1
\* (C8 tells the two apart)
GhostSideTieUp(p, shift) ==
    LET m == VSub(p, shift)
        q == VAdd(p, shift)
    IN  IF Dot(m, m) < Dot(q, q) THEN -1 ELSE 1

\* np.argmin(np.c_[sum((p - shift)^2), sum((p + shift)^2)]) * 2 - 1
GhostSide(p, shift) ==
    LET m == VSub(p, shift)
        q == VAdd(p, shift)
    IN  IF Dot(m, m) <= Dot(q, q) THEN -1 ELSE 1

\* ref + np.outer(side, shift)
GhostImage(pts, side, shift) ==
    [n \in Idx(pts) |-> VAdd(pts[n], VScale(side[n], shift))]

\* the generator object ghost(pts, pbc) returns
ghost(pts, pbc) ==
    [pc |-> "created", pts |-> pts, pbc |-> pbc, k |-> 0,
     box |-> <<>>, L |-> <<>>, side |-> <<>>, out |-> <<>>]

\* side, one sign per point
GhostSides(pts, shift) == [n \in Idx(pts) |-> GhostSide(pts[n], shift)]

\* the generator at its first yield
GhostFirst(g, box, L, side, shift) ==
    [g EXCEPT !.pc = "yielded", !.k = 1, !.box = box, !.L = L, !.side = side,
              !.out = <<GhostImage(g.pts, side, shift)>>]

GhostSigned(g, box, L, shift) ==
    GhostFirst(g, box, L, GhostSides(g.pts, shift), shift)

GhostShifted(g, box, L) == GhostSigned(g, box, L, GhostShift(box, L, 1))

GhostStart(g, box) == GhostShifted(g, box, GhostL(box, Broadcast3(g.pbc)))

\* one next() on a generator that has not ended: the generator after it
ghost_next(d, g) ==
    IF g.pc = "created"
    THEN GhostStart(g, output(d))
    ELSE IF g.k < 7
         THEN [g EXCEPT !.k = g.k + 1,
                        !.out = Append(g.out,
                                  GhostImage(g.pts, g.side,
                                             GhostShift(g.box, g.L, g.k + 1)))]
         ELSE [g EXCEPT !.pc = "done"]

-----------------------------------------------------------------------------
(* The parameter store under writes, bulk updates and ingestion *)

NoGen == [pc |-> "none"]

NoRet == <<>>

\* parameter dicts handed to Box(...) and to input.update(...)
ParamDicts ==
    {<<>>,
     [alpha |-> 53],
     [gamma |-> 127, allow_tilt |-> TRUE],
     [beta |-> 53, allow_tilt |-> FALSE],
     [alpha |-> 90, beta |-> 90, allow_tilt |-> FALSE],
     [lx |-> 2000, foo |-> 1],
     [foo |-> 1, bar |-> 2],
     [bx |-> "ff", gamma |-> 90]}

\* the keys written one at a time; foo is no field
WriteKeys == {"alpha", "gamma", "allow_tilt", "foo"}

ValuesOf(key) ==
    CASE key \in abg -> {53, 90}
      [] key = "allow_tilt" -> BOOLEAN
      [] OTHER -> {1}

\* what set_input is called with: <<argv, typ>>, typ = "" for no type token
Ingestions ==
    {<<NoneArgv, "">>,
     <<NoneArgv, "lattice">>,
     <<ArrayArgv(<<>>), "">>,
     <<ArrayArgv(<<7>>), "">>,
     <<ArrayArgv(<<7>>), "basis">>,
     <<ArrayArgv(<<1000, 1000, 1000>>), "">>,
     <<ArrayArgv(<<0, 1000, 0, 1000, 0, 1000, 0, 0, 0, 0>>), "">>,
     <<ArrayArgv(<<0, 1000, 0, 1000, 0, 1000, 0, 0, 0>>), "">>,
     <<ArrayArgv(<<0, 1000, 0, 0, 1000, 0, 0, 1000, 0>>), "">>,
     <<ArrayArgv(<<0, 1000, 0, 400, 0, 1000, 300, 0, 0>>), "">>,
     <<ArrayArgv(<<1000, 0, 0, 300, 400, 0, 0, 0, 1000>>), "">>,
     <<ArrayArgv(<<1000, 0, 0, 0, 1000, 0, 0, 0, 1000>>), "poscar">>,
     <<ArrayArgv(<<1000, 500, 1000, 90, 90, 53>>), "vmd">>,
     <<ArrayArgv(<<1000, 1000, 1000, 90, 90, 90>>), "basis">>,
     <<ArrayArgv(<<1000, 3, 500, 0, 0, 1000>>), "dcd">>,
     <<ArrayArgv(<<1000, 1000, 1000, 90, 90, 90>>), "xyz">>}

InitDict ==
    \E inputdict \in ParamDicts :
        /\ input = BoxInit(inputdict)
        /\ op = "init"
        /\ err = ""
        /\ before = Defaults
        /\ arg = [upd |-> inputdict]
        /\ ret = NoRet
        /\ gen = NoGen
        /\ nops = 0

\* box[key] = value
SetItem ==
    \E key \in WriteKeys : \E value \in ValuesOf(key) :
        LET r == setitem(input, key, value)
        IN  /\ input' = r.d
            /\ op' = "setitem"
            /\ err' = r.err
            /\ before' = input
            /\ arg' = [key |-> key, value |-> value]
            /\ ret' = NoRet
            /\ UNCHANGED <<gen, nops>>

\* box.input.key = value
SetAttr ==
    \E key \in WriteKeys : \E value \in ValuesOf(key) :
        LET r == setattr(input, key, value)
        IN  /\ input' = r.d
            /\ op' = "setattr"
            /\ err' = r.err
            /\ before' = input
            /\ arg' = [key |-> key, value |-> value]
            /\ ret' = NoRet
            /\ UNCHANGED <<gen, nops>>

\* box.input.update(upd)
Update ==
    \E upd \in ParamDicts :
        /\ input' = update(input, upd)
        /\ op' = "update"
        /\ err' = ""
        /\ before' = input
        /\ arg' = [upd |-> upd]
        /\ ret' = NoRet
        /\ UNCHANGED <<gen, nops>>

\* box.set_input(argv, typ)
SetInput ==
    \E call \in Ingestions :
        LET r == set_input(input, call[1], call[2])
        IN  /\ input' = r.d
            /\ op' = "set_input"
            /\ err' = r.err
            /\ before' = input
            /\ arg' = [argv |-> call[1], typ |-> call[2]]
            /\ ret' = r.typ
            /\ UNCHANGED <<gen, nops>>


-----------------------------------------------------------------------------
(* The spatial queries on boxes and point sets drawn from bounded sets *)

\* parameter dicts of the boxes queried: orthogonal boxes with origins at,
\* above and below zero, and boxes tilted in one angle
GeomDicts ==
    {<<>>,
     [x0 |-> 500],
     [x0 |-> -500, y0 |-> 500],
     [lx |-> 2000, z0 |-> -500, bx |-> "ff"],
     [x0 |-> 500, y0 |-> -500, z0 |-> 500, lx |-> 500, ly |-> 2000],
     [gamma |-> 53, ly |-> 400, allow_tilt |-> TRUE],
     [gamma |-> 127, ly |-> 800, x0 |-> 500, allow_tilt |-> TRUE],
     [alpha |-> 53, lz |-> 400, allow_tilt |-> TRUE]}

\* edges of 1000 unless the dict says otherwise
GeomEdges == [lx |-> 1000, ly |-> 1000, lz |-> 1000]

GeomBoxes == {BoxInit(p @@ GeomEdges) : p \in GeomDicts}

PX == {-1100, -100, 0, 300, 500, 1000, 1100, 2100}

PY == {-100, 0, 200, 400, 500, 1000, 1100}

PZ == {0, 500, 1000, 1100}

PointPool == {<<x, y, z>> : x \in PX, y \in PY, z \in PZ}

Partners == {<<500, 200, 500>>, <<-100, 1100, 500>>, <<2100, 0, 1100>>}

\* point sets of one or two points
PointSets ==
    {<<p>> : p \in PointPool} \cup {<<p, q>> : p \in PointPool, q \in Partners}

PbcArgs ==
    {<<FALSE>>, <<TRUE>>, <<TRUE, FALSE, FALSE>>, <<FALSE, TRUE, FALSE>>,
     <<TRUE, FALSE>>}

InitQuery(boxes, args) ==
    /\ input \in boxes
    /\ op = "init"
    /\ err = ""
    /\ before = input
    /\ arg \in args
    /\ ret = NoRet
    /\ gen = NoGen
    /\ nops = 0

\* box.bbcheck(pts)
BBCheck ==
    /\ op = "init"
    /\ InFamily(input)
    /\ op' = "bbcheck"
    /\ ret' = bbcheck(input, arg.pts)
    /\ before' = input
    /\ UNCHANGED <<input, err, arg, gen, nops>>

InitBB == InitQuery(GeomBoxes, {[pts |-> pts] : pts \in PointSets})

SpecBB == InitBB /\ [][BBCheck]_vars

\* box.wrap(pts, pbc=pbc)
Wrap ==
    /\ op = "init"
    /\ InFamily(input)
    /\ op' = "wrap"
    /\ ret' = wrap(input, arg.pts, arg.pbc)
    /\ before' = input
    /\ UNCHANGED <<input, err, arg, gen, nops>>

InitWrap ==
    InitQuery(GeomBoxes,
              {[pts |-> pts, pbc |-> pbc] : pts \in PointSets, pbc \in PbcArgs})

SpecWrap == InitWrap /\ [][Wrap]_vars

\* box.extend(pts, pbc=pbc) with the arguments drawn from sets and pbcs
ExtendWith(sets, pbcs) ==
    \E pts \in sets : \E pbc \in pbcs :
        /\ InFamily(input)
        /\ input' = extend(input, pts, pbc)
        /\ op' = "extend"
        /\ err' = ""
        /\ before' = input
        /\ arg' = [pts |-> pts, pbc |-> pbc]
        /\ ret' = NoRet
        /\ UNCHANGED gen

\* how many extend calls one behaviour of SpecExtend makes
MaxExtend == 2

EX == {-1100, -100, 500, 1100}

EY == {-100, 200, 1100}

EZ == {500, 1100}

ExtendSets ==
    {<<p>> : p \in {<<x, y, z>> : x \in EX, y \in EY, z \in EZ}}
      \cup {<<p, <<500, 200, 500>>>> :
              p \in {<<x, y, z>> : x \in EX, y \in EY, z \in EZ}}

ExtendPbc == {<<FALSE>>, <<TRUE>>, <<TRUE, FALSE, FALSE>>, <<FALSE, TRUE>>}

Extend ==
    /\ nops < MaxExtend
    /\ ExtendWith(ExtendSets, ExtendPbc)
    /\ nops' = nops + 1

InitExtend == InitQuery(GeomBoxes, {<<>>})

SpecExtend == InitExtend /\ [][Extend]_vars

\* how many extend calls one behaviour of SpecDict makes
MaxDictExtend == 1

\* the extend calls made on the boxes of SpecDict
ExtendDict ==
    /\ nops < MaxDictExtend
    /\ ExtendWith({<<<<-100, 200, 500>>, <<500, 200, 500>>>>}, {<<FALSE>>, <<TRUE>>})
    /\ nops' = nops + 1

NextDict == SetItem \/ SetAttr \/ Update \/ SetInput \/ ExtendDict

SpecDict == InitDict /\ [][NextDict]_vars

-----------------------------------------------------------------------------
(* The ghost generator, run to its end and called again *)

\* the points ghost images are taken of; a zero coordinate makes the two
\* squared lengths of the sign rule tie
GhostPool == {<<x, y, z>> : x \in {-100, 0, 500, 1100}, y \in {0, 200, 1100}, z \in {0, 500}}

GhostSets ==
    {<<p>> : p \in GhostPool} \cup {<<p, q>> : p \in Partners, q \in Partners}

GhostArgs == {[pts |-> pts, pbc |-> pbc] : pts \in GhostSets, pbc \in PbcArgs}

InitGhost == InitQuery(GeomBoxes, GhostArgs)

\* g = box.ghost(pts, pbc): the first call, and a call again once the
\* generator has ended (ret keeps what the ended run yielded)
GhostCall ==
    /\ InFamily(input)
    /\ \/ op = "init" /\ ret' = ret
       \/ op = "ghost" /\ gen.pc = "done" /\ ret = NoRet /\ ret' = gen.out
    /\ gen' = ghost(arg.pts, arg.pbc)
    /\ op' = "ghost"
    /\ before' = input
    /\ UNCHANGED <<input, err, arg, nops>>

\* next(g): a yield, or StopIteration after the seventh
GhostNext ==
    /\ gen.pc \in {"created", "yielded"}
    /\ gen' = ghost_next(input, gen)
    /\ before' = input
    /\ UNCHANGED <<input, op, err, arg, ret, nops>>

NextGhost == GhostCall \/ GhostNext

SpecGhost == InitGhost /\ [][NextGhost]_vars

-----------------------------------------------------------------------------
(* The type guesser on arrays drawn from a bounded set *)

\* the largest element of the enumerated arrays
MaxVal == 2

RECURSIVE Arrays(_)
Arrays(n) ==
    IF n = 0 THEN {<<>>}
    ELSE {Append(a, x) : a \in Arrays(n - 1), x \in 0..MaxVal}

GuessArgs ==
    Arrays(9) \cup Arrays(6)
      \cup {<<0, 10, 0, 10, 0, 10, 0, 0, 0>>, <<0, 10, 0, 0, 10, 0, 0, 10, 0>>,
            <<0, 10, 0, 5, 10, 15, 0, 10, 0>>, <<0, 1, 0, 1, 2, 3, 0, 1, 5>>,
            <<10, 10, 10, 90, 90, 90>>}

InitGuess == InitQuery({Defaults}, {[argv |-> a] : a \in GuessArgs})

\* box._guess_type(argv)
GuessType ==
    /\ op = "init"
    /\ op' = "guess_type"
    /\ LET r == guess_type(ArrayArgv(arg.argv))
       IN  err' = r.err /\ ret' = r.typ
    /\ before' = input
    /\ UNCHANGED <<input, arg, gen, nops>>

SpecGuess == InitGuess /\ [][GuessType]_vars

-----------------------------------------------------------------------------
(* Lattice parameters ingested, the derived basis ingested back *)

\* edge lengths a, b, c: on the 1e-9 grid (even) and off it (odd)
LatticeLens == {7, 1000, 1001, 1010}

LatticeAngles ==
    {<<90, 90, 90>>, <<53, 90, 90>>, <<90, 53, 90>>, <<90, 90, 53>>,
     <<90, 90, 127>>}

\* the tuples a, b, c, alpha, beta, gamma the arithmetic is exact on: an
\* orthogonal cell of any edges, or one tilted angle with the tilted edges a
\* whole number of 1e-9 in every component
LatticeArgs ==
    {<<a, b, c, g[1], g[2], g[3]>> : a \in LatticeLens, b \in LatticeLens,
                                     c \in LatticeLens, g \in LatticeAngles}

ExactLattice(t) ==
    /\ t[6] # 90 => t[2] % (5 * Nano) = 0
    /\ (t[4] # 90 \/ t[5] # 90) => t[3] % (5 * Nano) = 0

\* v.flatten()
Flatten(v) ==
    <<v[1][1], v[1][2], v[1][3], v[2][1], v[2][2], v[2][3],
      v[3][1], v[3][2], v[3][3]>>

\* a, b, c, alpha, beta, gamma read from `output`
LatticeOf(box) == <<box.a, box.b, box.c, box.alpha, box.beta, box.gamma>>

InitRoundTrip == InitQuery({Defaults}, {t \in LatticeArgs : ExactLattice(t)})

\* box.set_input(arg, 'lattice')
SetLattice ==
    /\ op = "init"
    /\ LET r == set_input(input, ArrayArgv(arg), "lattice")
       IN  input' = r.d /\ err' = r.err
    /\ op' = "lattice"
    /\ before' = input
    /\ UNCHANGED <<arg, ret, gen, nops>>

\* box.set_input(box.output['v'], 'basis'), then the lattice parameters of
\* box.output
SetBasis ==
    /\ op = "lattice"
    /\ InFamily(input)
    /\ LET r == set_input(input, ArrayArgv(Flatten(output(input).v)), "basis")
       IN  /\ input' = r.d
           /\ err' = r.err
           /\ ret' = LatticeOf(output(r.d))
    /\ op' = "basis"
    /\ before' = input
    /\ UNCHANGED <<arg, gen, nops>>

NextRoundTrip == SetLattice \/ SetBasis

SpecRoundTrip == InitRoundTrip /\ [][NextRoundTrip]_vars

-----------------------------------------------------------------------------
(* Claims *)

LoKey == <<"x0", "y0", "z0">>

LenKey == <<"lx", "ly", "lz">>

Orthogonal(d) == ~AnyTilt(d)

AllPeriodic(pbc) == \A i \in 1..3 : Broadcast3(pbc)[i]

NonePeriodic(pbc) == \A i \in 1..3 : ~Broadcast3(pbc)[i]

SomeOutbound(d, pts) == \E n \in Idx(pts) : bbcheck(d, pts).outbound[n]

\* C1: whenever one of alpha, beta, gamma differs from 90, the stored
\* allow_tilt is true, after construction with any parameter dict and after
\* every single-field write, bulk update and ingestion.
C1_TiltInvariant == AnyTilt(input) => input["allow_tilt"] = TRUE

\* C2: the key set of the CanonicalBox is always exactly the 13 fields; a
\* single-field write of a key outside the set fails with an error and
\* changes no field; a bulk update (and the construction, which is one)
\* applies the values of its recognized keys and drops the others.
C2_ClosedFieldSet ==
    /\ DOMAIN input = Fields
    /\ (op \in {"setitem", "setattr"} /\ arg.key \notin Fields)
          => (err = "KeyError" /\ input = before)
    /\ op \in {"update", "init"}
          => \A k \in Fields :
                input[k] = IF k \in DOMAIN arg.upd THEN arg.upd[k] ELSE before[k]

\* C2 witness: a bulk update that carried a recognized and an unrecognized key
C2_Witness ==
    /\ op = "update"
    /\ \E k \in DOMAIN arg.upd : k \notin Fields
    /\ \E k \in DOMAIN arg.upd : k \in Fields /\ input[k] # before[k]
    /\ nops > 0

\* C3: a 9-element array is LmpData when argv[0]<argv[1], argv[2]<argv[3]
\* and argv[4]<argv[5]; otherwise LmpDump when argv[0]<argv[1],
\* argv[3]<argv[4] and argv[6]<argv[7]; otherwise Basis.  A 6-element array
\* is DCD when argv[1]<=1, argv[3]<=1 and argv[4]<=1, otherwise Lattice.
\* (0,10,0,10,0,10,0,0,0) is LmpData and (0,10,0,0,10,0,0,10,0) is LmpDump.
C3_TypeInference ==
    op = "guess_type" =>
        LET a == arg.argv
        IN  /\ err = ""
            /\ Len(a) = 9 =>
                 ret = IF a[1] < a[2] /\ a[3] < a[4] /\ a[5] < a[6]
                       THEN "lmpdata"
                       ELSE IF a[1] < a[2] /\ a[4] < a[5] /\ a[7] < a[8]
                            THEN "lmpdump"
                            ELSE "basis"
            /\ Len(a) = 6 =>
                 ret = IF a[2] <= 1 /\ a[4] <= 1 /\ a[5] <= 1
                       THEN "dcd"
                       ELSE "lattice"
            /\ a = <<0, 10, 0, 10, 0, 10, 0, 0, 0>> => ret = "lmpdata"
            /\ a = <<0, 10, 0, 0, 10, 0, 0, 10, 0>> => ret = "lmpdump"

\* C3 witness: an array that passes both 9-element tests was guessed LmpData
C3_Witness ==
    /\ op = "guess_type"
    /\ Len(arg.argv) = 9
    /\ arg.argv[1] < arg.argv[2] /\ arg.argv[3] < arg.argv[4]
    /\ arg.argv[5] < arg.argv[6]
    /\ arg.argv[4] < arg.argv[5] /\ arg.argv[7] < arg.argv[8]
    /\ ret = "lmpdata"

\* the low and high end of axis i, read from the CanonicalBox itself
LoOf(d, i) == d[LoKey[i]]

HiOf(d, i) == d[LoKey[i]] + d[LenKey[i]]

\* C4: bbcheck classifies a point inbound exactly when all six face
\* distances are >= 0, which for an orthogonal box is lo_k <= p_k <= hi_k on
\* every axis; the outbound mask is the complement of the inbound mask; the
\* call does not fail and leaves the CanonicalBox as it was.
C4_BoundaryInclusive ==
    op = "bbcheck" =>
        /\ err = ""
        /\ input = before
        /\ \A n \in Idx(arg.pts) :
              /\ ret.inbound[n] <=> \A k \in 1..6 : ret.dist[n][k] >= 0
              /\ ret.outbound[n] <=> ~ret.inbound[n]
              /\ Orthogonal(input) =>
                    (ret.inbound[n] <=>
                       \A i \in 1..3 : /\ LoOf(input, i) <= arg.pts[n][i]
                                       /\ arg.pts[n][i] <= HiOf(input, i))

\* C4 witness: a point on the far corner of an orthogonal box was classified
\* inbound, next to a point classified outbound
C4_Witness ==
    /\ op = "bbcheck"
    /\ Orthogonal(input)
    /\ \E n \in Idx(arg.pts) :
          /\ ret.inbound[n]
          /\ \A i \in 1..3 : arg.pts[n][i] = HiOf(input, i)
    /\ \E n \in Idx(arg.pts) : ret.outbound[n]

\* C5: after extend has run on a point set with an outbound point, bbcheck of
\* the same points against the updated box reports no outbound point, and a
\* second extend on the same points leaves the CanonicalBox unchanged.
C5_ExtendIdempotent ==
    (/\ op = "extend"
     /\ NonePeriodic(arg.pbc)
     /\ SomeOutbound(before, arg.pts)
     /\ InFamily(input))
    => /\ ~SomeOutbound(input, arg.pts)
       /\ extend(input, arg.pts, arg.pbc) = input

\* C6: extend called with an axis flagged periodic, on a point set with an
\* outbound point, leaves that axis's low end where it was and does not grow
\* that axis's length.
C6_PeriodicAxesKept ==
    (op = "extend" /\ SomeOutbound(before, arg.pts))
    => \A i \in 1..3 :
          Broadcast3(arg.pbc)[i]
             => /\ input[LoKey[i]] = before[LoKey[i]]
                /\ input[LenKey[i]] <= before[LenKey[i]]

\* C7: for an orthogonal box, wrap with all axes periodic returns points
\* bbcheck classifies inbound, each a whole number of box lengths from its
\* input point on every axis, (1100, 500, 500) in the box of edge 1000 at the
\* origin becoming (100, 500, 500); coordinates along non-periodic axes and
\* points already inbound come back unchanged; the CanonicalBox is not
\* changed.
C7_WrapCorrect ==
    (op = "wrap" /\ Orthogonal(input)) =>
        /\ input = before
        /\ Len(ret) = Len(arg.pts)
        /\ \A n \in Idx(arg.pts) :
              /\ AllPeriodic(arg.pbc) =>
                    /\ bbcheck(input, ret).inbound[n]
                    /\ \A i \in 1..3 :
                          (ret[n][i] - arg.pts[n][i]) % input[LenKey[i]] = 0
              /\ \A i \in 1..3 :
                    ~Broadcast3(arg.pbc)[i] => ret[n][i] = arg.pts[n][i]
              /\ bbcheck(input, arg.pts).inbound[n] => ret[n] = arg.pts[n]
        /\ (/\ AllPeriodic(arg.pbc)
            /\ input = BoxInit(GeomEdges)
            /\ arg.pts = <<<<1100, 500, 500>>>>)
              => ret = <<<<100, 500, 500>>>>

\* C7 witness: the example point was wrapped by a fully periodic wrap
C7_Witness ==
    /\ op = "wrap"
    /\ AllPeriodic(arg.pbc)
    /\ input = BoxInit(GeomEdges)
    /\ arg.pts = <<<<1100, 500, 500>>>>
    /\ ret = <<<<100, 500, 500>>>>

\* the axes shifted by the k-th yield: a+b+c, a, b, c, (a,b), (b,c), (c,a)
GhostAxes == <<{1, 2, 3}, {1}, {2}, {3}, {1, 2}, {2, 3}, {3, 1}>>

\* the lattice vector of axis i where the axis is periodic and in S
GhostVec(box, pbc3, S, i) ==
    IF i \in S /\ pbc3[i] THEN box.v[i] ELSE <<0, 0, 0>>

GhostSum(box, pbc3, S) ==
    VAdd(GhostVec(box, pbc3, S, 1),
         VAdd(GhostVec(box, pbc3, S, 2), GhostVec(box, pbc3, S, 3)))

\* -1 when p minus the diagonal is no longer than p plus it, +1 otherwise
GhostSign(p, diag) ==
    IF Dot(VSub(p, diag), VSub(p, diag)) <= Dot(VAdd(p, diag), VAdd(p, diag))
    THEN -1 ELSE 1

\* the k-th point set of the claim
GhostExpected(d, pts, pbc, k) ==
    [n \in Idx(pts) |->
        VAdd(pts[n],
             VScale(GhostSign(pts[n],
                              GhostSum(output(d), Broadcast3(pbc), {1, 2, 3})),
                    GhostSum(output(d), Broadcast3(pbc), GhostAxes[k])))]

\* C8: one run of the ghost generator yields 7 point sets and then ends, in
\* the order a+b+c, a, b, c, (a,b), (b,c), (c,a), every one shifted by the
\* same per-point sign, -1 when the point minus the diagonal shift is no
\* longer than the point plus it and +1 otherwise; a second run on the same
\* inputs yields the same 7 sets; the points and the CanonicalBox are not
\* changed.
C8_GhostSequence ==
    op = "ghost" =>
        /\ input = before
        /\ gen.pts = arg.pts
        /\ Len(gen.out) = gen.k
        /\ gen.k <= 7
        /\ gen.pc = "created" => gen.k = 0
        /\ gen.pc = "done" => gen.k = 7
        /\ \A k \in 1..Len(gen.out) :
              gen.out[k] = GhostExpected(input, arg.pts, arg.pbc, k)
        /\ ret # NoRet =>
              /\ Len(ret) = 7
              /\ \A k \in 1..Len(gen.out) : gen.out[k] = ret[k]

\* C8 witness: a second run has ended after its seventh yield, on a tilted
\* box with a periodic axis, with both signs among the points
C8_Witness ==
    /\ op = "ghost"
    /\ gen.pc = "done"
    /\ ret # NoRet
    /\ Len(gen.out) = 7
    /\ ~Orthogonal(input)
    /\ \E i \in 1..3 : Broadcast3(arg.pbc)[i]
    /\ \E n \in Idx(arg.pts) : gen.side[n] = -1
    /\ \E n \in Idx(arg.pts) : gen.side[n] = 1

\* C9: set_input without a type token ends in the missing-parameters error
\* when the input is absent, in the unsupported-format error when it is one
\* token, in the invalid-parameters error when it is an array of a length
\* other than 6 and 9; and in each case no field of the CanonicalBox changes.
C9_FailedIngestion ==
    (/\ op = "set_input"
     /\ arg.typ = ""
     /\ (arg.argv.none \/ Len(arg.argv.data) \notin {6, 9}))
    => /\ input = before
       /\ err = IF arg.argv.none THEN "MissingParametersError"
                ELSE IF Len(arg.argv.data) = 1 THEN "UnsupportedFormatError"
                ELSE "InvalidParametersError"

\* C10: a Lattice tuple ingested, its derived basis ingested as Basis and the
\* lattice parameters derived again gives back the six values within 1e-9;
\* for an orthogonal cell the basis is diag(a, b, c) and the six values come
\* back exactly.
C10_RoundTrip ==
    op = "basis" =>
        /\ \A i \in 1..3 : Abs(ret[i] - arg[i]) <= Nano
        /\ \A i \in 4..6 : ret[i] = arg[i]
        /\ (arg[4] = 90 /\ arg[5] = 90 /\ arg[6] = 90)
              => /\ output(before).v
                      = <<<<arg[1], 0, 0>>, <<0, arg[2], 0>>, <<0, 0, arg[3]>>>>
                 /\ ret = arg

\* the points probed for containment before and after an extend call
Probes == PointPool \cup {<<-250, 200, 500>>, <<250, 200, 500>>}

Inbound(d, p) == bbcheck(d, <<p>>).inbound[1]

\* C11: extend never shrinks the box: a point that bbcheck classifies inbound
\* before an extend call is classified inbound after it, whether or not the
\* point was in the point set passed to extend.
C11_ExtendNeverShrinks ==
    (op = "extend" /\ InFamily(input))
    => \A p \in Probes : Inbound(before, p) => Inbound(input, p)

====
